---------------------------- MODULE Spec2Model ----------------------------
(***************************************************************************)
(* Model of src/src/middleware.js: the ErrorWithResponse class and the two *)
(* middleware functions checkStatus and parseJSON, run on the promise      *)
(* machinery they are written against (then-reactions, the microtask       *)
(* queue, adoption of a returned promise).                                 *)
(*                                                                         *)
(* One exchange promise (the fetch) is promise 1.  The caller applies      *)
(* checkStatus / parseJSON to it or to the output of an earlier            *)
(* application; the transport settles the exchange; the body accessor      *)
(* json() of the Response settles the promises it returned.                *)
(***************************************************************************)
EXTENDS Integers, Sequences, FiniteSets

VARIABLES
    promises,   \* the promise objects, in creation order
    jobs,       \* the microtask queue (FIFO)
    nextObj,    \* next fresh object identity
    created     \* ErrorWithResponse objects constructed so far, in order

vars == <<promises, jobs, nextObj, created>>

(***************************** bounds **************************************)
\* number of middleware applications the caller makes
MaxCalls == 2

(************************ program constants ********************************)
StatusMin == 200
StatusMax == 299

(***************************** inputs **************************************)
Statuses == {199, 200, 299, 300, 404}
StatusTexts == {"OK", "Not Found"}
GoodBody == "{\"id\": 42}"
BadBody == "{not json"
Bodies == {GoodBody, BadBody}

(***************************** values **************************************)
Undefined == [kind |-> "undefined", id |-> 0]

Response(id, status, statusText, body) ==
    [kind |-> "Response", id |-> id, status |-> status,
     statusText |-> statusText, body |-> body]

TransportError(id) ==
    [kind |-> "TypeError", id |-> id, message |-> "Failed to fetch"]

\* message of `new Error(x)`: x itself, or "" when x is undefined
StatusTextOf(response) ==
    IF "statusText" \in DOMAIN response THEN response.statusText ELSE ""

\* mutant: the constructor forgets super(response.statusText)
ErrorWithResponseNoMessage(response, id) ==
    [kind |-> "ErrorWithResponse", id |-> id, message |-> "",
     response |-> response]

\* class ErrorWithResponse: super(response.statusText); this.response = response
ErrorWithResponse(response, id) ==
    [kind |-> "ErrorWithResponse", id |-> id,
     message |-> StatusTextOf(response), response |-> response]

\* mutant: the lower boundary is excluded
InRangeStrictLow(response) ==
    /\ "status" \in DOMAIN response
    /\ response.status > StatusMin
    /\ response.status <= StatusMax

\* mutant: the upper boundary is excluded
InRangeStrictHigh(response) ==
    /\ "status" \in DOMAIN response
    /\ response.status >= StatusMin
    /\ response.status < StatusMax

\* mutant: the upper bound is not tested at all
InRangeNoUpper(response) ==
    /\ "status" \in DOMAIN response
    /\ response.status >= StatusMin

\* status >= 200 && status <= 299   (an undefined status compares false)
InRange(response) ==
    /\ "status" \in DOMAIN response
    /\ response.status >= StatusMin
    /\ response.status <= StatusMax


(************************* the body accessor *******************************)
\* what parsing the body text yields: the structured value, or a SyntaxError
JSONParse(body, id) ==
    IF body = GoodBody
    THEN [ok |-> TRUE,
          value |-> [kind |-> "Object", id |-> id, fields |-> [id |-> 42]]]
    ELSE [ok |-> FALSE,
          value |-> [kind |-> "SyntaxError", id |-> id,
                     message |-> "Unexpected token n in JSON"]]

\* calling value.json() on a value that has no json method throws
NotAFunction(id) ==
    [kind |-> "TypeError", id |-> id,
     message |-> "response.json is not a function"]

HasJson(value) == value.kind = "Response"

(*************************** the handlers **********************************)
\* What one run of a then-callback does: how it completes, with which
\* value, the ErrorWithResponse objects it constructed (made), the number
\* of object identities it used (fresh), and what it touched.
Completion(type, value, made, fresh, statusReads, jsonCalls) ==
    [type |-> type, value |-> value, made |-> made, fresh |-> fresh,
     statusReads |-> statusReads, jsonCalls |-> jsonCalls]

\* mutant: the error is constructed before the status is tested
CheckStatusHandlerEager(response, id) ==
    IF InRange(response)
    THEN Completion("return", response,
                    <<ErrorWithResponse(response, id)>>, 1, 1, 0)
    ELSE Completion("returnRejected", ErrorWithResponse(response, id),
                    <<ErrorWithResponse(response, id)>>, 1, 1, 0)

\* checkStatus's callback, lines 62-70
CheckStatusHandler(response, id) ==
    IF InRange(response)
    THEN Completion("return", response, <<>>, 0, 1, 0)
    ELSE Completion("returnRejected", ErrorWithResponse(response, id),
                    <<ErrorWithResponse(response, id)>>, 1, 1, 0)

\* mutant: `return response` instead of `return response.json()`
ParseJSONHandlerNoCall(response, id) ==
    Completion("return", response, <<>>, 0, 0, 0)

\* mutant: parseJSON gates on the status itself before parsing
ParseJSONHandlerGated(response, id) ==
    IF ~HasJson(response)
    THEN Completion("throw", NotAFunction(id), <<>>, 1, 1, 0)
    ELSE IF InRange(response)
    THEN Completion("returnJson", response, <<>>, 0, 1, 1)
    ELSE Completion("returnRejected", ErrorWithResponse(response, id),
                    <<ErrorWithResponse(response, id)>>, 1, 1, 0)

\* parseJSON's callback, lines 82-84
ParseJSONHandler(response, id) ==
    IF HasJson(response)
    THEN Completion("returnJson", response, <<>>, 0, 0, 1)
    ELSE Completion("throw", NotAFunction(id), <<>>, 1, 0, 0)

Handler(via, value, id) ==
    IF via = "checkStatus"
    THEN CheckStatusHandler(value, id)
    ELSE ParseJSONHandler(value, id)

\* mutant: the callback is passed as rejection handler too, then(h, h)
ReactionBothHandlers(via, state, value, id) ==
    Handler(via, value, id)

\* promise.then(callback) with no rejection handler: a rejection of the
\* input is rethrown unchanged, a fulfilment runs the callback
Reaction(via, state, value, id) ==
    IF state = "rejected"
    THEN Completion("throw", value, <<>>, 0, 0, 0)
    ELSE Handler(via, value, id)

\* mutant: a rejection of the returned promise is wrapped
AdoptedWrapped(state, value) ==
    IF state = "rejected"
    THEN [state |-> state, value |-> ErrorWithResponse(value, 0)]
    ELSE [state |-> state, value |-> value]

\* a callback that returns a promise: the derived promise adopts its outcome
Adopted(state, value) == [state |-> state, value |-> value]

(*************************** promise objects *******************************)
NewPromise(via, src, state, value) ==
    [state |-> state, value |-> value, via |-> via, src |-> src,
     reactions |-> <<>>, ran |-> 0, statusReads |-> 0, jsonCalls |-> 0,
     errs |-> 0]

Job(type, target, from) == [type |-> type, target |-> target, from |-> from]

\* the jobs that settling promise i enqueues, in registration order
ReactionJobs(ps, i) ==
    [k \in 1..Len(ps[i].reactions) |->
        Job(ps[i].reactions[k].type, ps[i].reactions[k].target, i)]

Settle(ps, i, state, value) ==
    [ps EXCEPT ![i].state = state, ![i].value = value, ![i].reactions = <<>>]

\* mutant: the returned promise is not chained to the incoming one
PerformThenDetached(ps, js, p, via) ==
    [promises |-> Append(ps, NewPromise(via, p, "pending", Undefined)),
     jobs |-> js]

\* promise.then(...): the derived promise, registered on a pending input
\* or scheduled at once on a settled one
PerformThen(ps, js, p, via) ==
    LET d == Len(ps) + 1 IN
    IF ps[p].state = "pending"
    THEN [promises |->
             Append([ps EXCEPT ![p].reactions =
                        Append(@, [type |-> "reaction", target |-> d])],
                    NewPromise(via, p, "pending", Undefined)),
          jobs |-> js]
    ELSE [promises |-> Append(ps, NewPromise(via, p, "pending", Undefined)),
          jobs |-> Append(js, Job("reaction", d, p))]

Middlewares == {"checkStatus", "parseJSON"}
IsApplication(ps, i) == ps[i].via \in Middlewares
\* promises the caller holds: the exchange and the middleware outputs
Callable(ps) == {i \in 1..Len(ps) : ps[i].via = "fetch" \/ IsApplication(ps, i)}
Calls(ps) == Cardinality({i \in 1..Len(ps) : IsApplication(ps, i)})

(****************************** state **************************************)
Init ==
    /\ promises = <<NewPromise("fetch", 0, "pending", Undefined)>>
    /\ jobs = <<>>
    /\ nextObj = 1
    /\ created = <<>>

(************************** the caller's calls *****************************)
CallCheckStatus(p) ==
    /\ Calls(promises) < MaxCalls
    /\ p \in Callable(promises)
    /\ LET r == PerformThen(promises, jobs, p, "checkStatus") IN
        /\ promises' = r.promises
        /\ jobs' = r.jobs
    /\ UNCHANGED <<nextObj, created>>

CallParseJSON(p) ==
    /\ Calls(promises) < MaxCalls
    /\ p \in Callable(promises)
    /\ LET r == PerformThen(promises, jobs, p, "parseJSON") IN
        /\ promises' = r.promises
        /\ jobs' = r.jobs
    /\ UNCHANGED <<nextObj, created>>

(***************************** environment *********************************)
\* the transport completes the exchange with an Exchange Result
ExchangeFulfil(status, statusText, body) ==
    /\ promises[1].state = "pending"
    /\ promises' = Settle(promises, 1, "fulfilled",
                          Response(nextObj, status, statusText, body))
    /\ jobs' = jobs \o ReactionJobs(promises, 1)
    /\ nextObj' = nextObj + 1
    /\ UNCHANGED created

\* the transport fails: no Exchange Result is produced
ExchangeReject ==
    /\ promises[1].state = "pending"
    /\ promises' = Settle(promises, 1, "rejected", TransportError(nextObj))
    /\ jobs' = jobs \o ReactionJobs(promises, 1)
    /\ nextObj' = nextObj + 1
    /\ UNCHANGED created

\* the Response the json() call behind promise q was made on
ResponseOf(ps, q) == ps[ps[ps[q].src].src].value

\* json() had already been called on the same Response before call q
BodyReadBefore(ps, q) ==
    \E e \in 1..(q - 1) :
        /\ ps[e].via = "json"
        /\ ResponseOf(ps, e).id = ResponseOf(ps, q).id

\* a Response whose body was already read refuses a second read
BodyUsed(id) ==
    [ok |-> FALSE,
     value |-> [kind |-> "TypeError", id |-> id,
                message |-> "body stream already read"]]

\* What call q of the accessor can yield.  The Response is the transport's
\* object: one that re-parses on every call yields the parse result each
\* time, a fetch Response yields it on the first call only.
AccessorOutcomes(ps, q, id) ==
    {JSONParse(ResponseOf(ps, q).body, id)}
        \cup (IF BodyReadBefore(ps, q) THEN {BodyUsed(id)} ELSE {})

\* the body accessor finishes: the promise json() returned settles
BodySettle(q) ==
    /\ q \in 1..Len(promises)
    /\ promises[q].via = "json"
    /\ promises[q].state = "pending"
    /\ \E r \in AccessorOutcomes(promises, q, nextObj) :
        promises' = Settle(promises, q,
                           IF r.ok THEN "fulfilled" ELSE "rejected", r.value)
    /\ jobs' = jobs \o ReactionJobs(promises, q)
    /\ nextObj' = nextObj + 1
    /\ UNCHANGED created

(**************************** microtasks ***********************************)
\* the then-reaction of application d runs on its settled input
RunReaction ==
    /\ jobs # <<>>
    /\ Head(jobs).type = "reaction"
    /\ LET d == Head(jobs).target
           p == promises[Head(jobs).from]
           c == Reaction(promises[d].via, p.state, p.value, nextObj)
           q == Len(promises) + 1
           ps == [promises EXCEPT
                    ![d].ran = @ + 1,
                    ![d].statusReads = @ + c.statusReads,
                    ![d].jsonCalls = @ + c.jsonCalls,
                    ![d].errs = @ + Len(c.made)]
       IN
        /\ nextObj' = nextObj + c.fresh
        /\ created' = created \o c.made
        /\ \/ /\ c.type = "return"
              /\ promises' = Settle(ps, d, "fulfilled", c.value)
              /\ jobs' = Tail(jobs) \o ReactionJobs(ps, d)
           \/ /\ c.type = "throw"
              /\ promises' = Settle(ps, d, "rejected", c.value)
              /\ jobs' = Tail(jobs) \o ReactionJobs(ps, d)
           \/ /\ c.type = "returnRejected"
              /\ promises' = Append(ps, NewPromise("Promise.reject", d,
                                                   "rejected", c.value))
              /\ jobs' = Append(Tail(jobs), Job("resolveThenable", d, q))
           \/ /\ c.type = "returnJson"
              /\ promises' = Append(ps, NewPromise("json", d, "pending",
                                                   Undefined))
              /\ jobs' = Append(Tail(jobs), Job("resolveThenable", d, q))

\* d was resolved with promise q: q.then(resolve d, reject d)
RunResolveThenable ==
    /\ jobs # <<>>
    /\ Head(jobs).type = "resolveThenable"
    /\ LET d == Head(jobs).target
           q == Head(jobs).from
       IN
        IF promises[q].state = "pending"
        THEN /\ promises' = [promises EXCEPT ![q].reactions =
                                Append(@, [type |-> "adopt", target |-> d])]
             /\ jobs' = Tail(jobs)
        ELSE /\ promises' = promises
             /\ jobs' = Append(Tail(jobs), Job("adopt", d, q))
    /\ UNCHANGED <<nextObj, created>>

\* d takes the outcome of the promise its callback returned
RunAdopt ==
    /\ jobs # <<>>
    /\ Head(jobs).type = "adopt"
    /\ LET d == Head(jobs).target
           q == promises[Head(jobs).from]
           a == Adopted(q.state, q.value)
       IN
        /\ promises' = Settle(promises, d, a.state, a.value)
        /\ jobs' = Tail(jobs) \o ReactionJobs(promises, d)
    /\ UNCHANGED <<nextObj, created>>

RunJob == RunReaction \/ RunResolveThenable \/ RunAdopt

Next ==
    \/ \E p \in 1..Len(promises) : CallCheckStatus(p)
    \/ \E p \in 1..Len(promises) : CallParseJSON(p)
    \/ \E s \in Statuses, t \in StatusTexts, b \in Bodies :
          ExchangeFulfil(s, t, b)
    \/ ExchangeReject
    \/ \E q \in 1..Len(promises) : BodySettle(q)
    \/ RunJob

Spec == Init /\ [][Next]_vars


(***************************************************************************)
(* Fairness: the microtask queue is always drained, and (the hypothesis of *)
(* the liveness property) the transport and the body accessor settle the   *)
(* promises they handed out.  The caller's calls carry no fairness.        *)
(***************************************************************************)
ExchangeSettles ==
    \/ \E s \in Statuses, t \in StatusTexts, b \in Bodies :
          ExchangeFulfil(s, t, b)
    \/ ExchangeReject

BodySettles == \E q \in 1..Len(promises) : BodySettle(q)

LiveSpec ==
    /\ Spec
    /\ WF_vars(RunJob)
    /\ WF_vars(ExchangeSettles)
    /\ WF_vars(BodySettles)

(************************** vocabulary of the properties *******************)
Is2xx(c) == c >= 200 /\ c <= 299
Ids == 1..Len(promises)
Apps(via) == {d \in Ids : promises[d].via = via}
AllApps == Apps("checkStatus") \cup Apps("parseJSON")
Input(d) == promises[promises[d].src]
Settled(i) == promises[i].state # "pending"
\* the promises json() returned to application d
JsonOf(d) == {q \in Ids : promises[q].via = "json" /\ promises[q].src = d}
\* promise i is fulfilled with an Exchange Result
GotResponse(i) ==
    /\ promises[i].state = "fulfilled"
    /\ promises[i].value.kind = "Response"
\* nothing is left to run and the body accessor owes nothing
Quiescent ==
    /\ jobs = <<>>
    /\ \A q \in Ids : promises[q].via = "json" => Settled(q)
\* the most promises a run creates: the exchange, and per application its
\* output and one returned promise
MaxPromises == 1 + 2 * MaxCalls

(***************************************************************************)
(* C1  checkStatus on an input fulfilled with an Exchange Result r whose   *)
(* status is in [200, 299] (200 and 299 included): the output is never     *)
(* rejected, it is fulfilled as soon as the callback has run, and its      *)
(* value is r itself (same identity, every field equal).                   *)
(***************************************************************************)
C1_PassThrough ==
    \A d \in Apps("checkStatus") :
        (GotResponse(promises[d].src) /\ Is2xx(Input(d).value.status)) =>
            /\ promises[d].state # "rejected"
            /\ promises[d].ran = 1 => promises[d].state = "fulfilled"
            /\ promises[d].state = "fulfilled" =>
                   promises[d].value = Input(d).value
            /\ Quiescent => promises[d].state = "fulfilled"

C1_Witness ==
    \E d \in Apps("checkStatus") :
        /\ GotResponse(promises[d].src)
        /\ Input(d).value.status = 299
        /\ promises[d].state = "fulfilled"
        /\ promises[d].value.id = Input(d).value.id

(***************************************************************************)
(* C2  checkStatus on an input fulfilled with an Exchange Result r whose   *)
(* status is below 200 or above 299 (199 and 300 included): the output is  *)
(* never fulfilled; it is rejected once the queue is drained, with an      *)
(* ErrorWithResponse whose response is r and whose message is r's          *)
(* statusText.                                                             *)
(***************************************************************************)
C2_Gate ==
    \A d \in Apps("checkStatus") :
        (GotResponse(promises[d].src) /\ ~Is2xx(Input(d).value.status)) =>
            /\ promises[d].state # "fulfilled"
            /\ promises[d].state = "rejected" =>
                   /\ promises[d].value.kind = "ErrorWithResponse"
                   /\ promises[d].value.response = Input(d).value
                   /\ promises[d].value.message = Input(d).value.statusText
            /\ Quiescent => promises[d].state = "rejected"

C2_Witness ==
    /\ \E d \in Apps("checkStatus") :
        /\ GotResponse(promises[d].src)
        /\ Input(d).value.status \in {199, 300}
        /\ Input(d).value.statusText = "Not Found"
        /\ promises[d].state = "rejected"
        /\ promises[d].value.kind = "ErrorWithResponse"

(***************************************************************************)
(* C3  checkStatus or parseJSON on a rejected input (a transport failure): *)
(* the output is never fulfilled, it is rejected once the queue is         *)
(* drained, with the very error of the input; the application reads no     *)
(* status, calls no json() and constructs no ErrorWithResponse.            *)
(***************************************************************************)
C3_TransportTransparency ==
    \A d \in AllApps :
        Input(d).state = "rejected" =>
            /\ promises[d].state # "fulfilled"
            /\ promises[d].state = "rejected" =>
                   promises[d].value = Input(d).value
            /\ promises[d].statusReads = 0
            /\ promises[d].jsonCalls = 0
            /\ promises[d].errs = 0
            /\ JsonOf(d) = {}
            /\ Quiescent => promises[d].state = "rejected"

C3_Witness ==
    /\ promises[1].state = "rejected"
    /\ \E c \in Apps("checkStatus"), j \in Apps("parseJSON") :
        /\ promises[c].src = 1
        /\ promises[j].src = 1
        /\ promises[c].state = "rejected"
        /\ promises[j].state = "rejected"
        /\ promises[c].value.kind = "TypeError"
        /\ promises[j].value.kind = "TypeError"
    /\ created = <<>>

(***************************************************************************)
(* C4  parseJSON on an input fulfilled with an Exchange Result, whatever   *)
(* its status: the callback calls json() exactly once, and when the        *)
(* promise json() returned is fulfilled with V the output is never         *)
(* rejected and is fulfilled, once the queue is drained, with exactly V.   *)
(***************************************************************************)
C4_Delegation ==
    \A d \in Apps("parseJSON") :
        GotResponse(promises[d].src) =>
            /\ promises[d].jsonCalls = promises[d].ran
            /\ promises[d].ran <= 1
            /\ Cardinality(JsonOf(d)) = promises[d].jsonCalls
            /\ \A q \in JsonOf(d) :
                 promises[q].state = "fulfilled" =>
                    /\ promises[d].state # "rejected"
                    /\ promises[d].state = "fulfilled" =>
                           promises[d].value = promises[q].value
                    /\ jobs = <<>> => promises[d].state = "fulfilled"

C4_Witness ==
    \E d \in Apps("parseJSON") :
        /\ GotResponse(promises[d].src)
        /\ ~Is2xx(Input(d).value.status)
        /\ promises[d].state = "fulfilled"
        /\ promises[d].value.kind = "Object"
        /\ promises[d].value.fields.id = 42
        /\ promises[d].jsonCalls = 1

(***************************************************************************)
(* C5  parseJSON on an input fulfilled with an Exchange Result whose       *)
(* json() promise is rejected with an error p (the SyntaxError of a        *)
(* malformed body): the output is never fulfilled and is rejected, once    *)
(* the queue is drained, with p itself, not an ErrorWithResponse; nothing  *)
(* is constructed.                                                         *)
(***************************************************************************)
C5_ParseFailure ==
    \A d \in Apps("parseJSON") :
        GotResponse(promises[d].src) =>
            \A q \in JsonOf(d) :
                promises[q].state = "rejected" =>
                    /\ promises[d].state # "fulfilled"
                    /\ promises[d].state = "rejected" =>
                          /\ promises[d].value = promises[q].value
                          /\ promises[d].value.kind # "ErrorWithResponse"
                          /\ (~BodyReadBefore(promises, q)) =>
                                promises[d].value.kind = "SyntaxError"
                    /\ promises[d].errs = 0
                    /\ jobs = <<>> => promises[d].state = "rejected"

C5_Witness ==
    \E d \in Apps("parseJSON") :
        /\ GotResponse(promises[d].src)
        /\ Input(d).value.body = BadBody
        /\ promises[d].state = "rejected"
        /\ promises[d].value.kind = "SyntaxError"

(***************************************************************************)
(* The pipeline parseJSON(checkStatus(exchange)): c is checkStatus applied *)
(* to the exchange promise, j is parseJSON applied to c's output.          *)
(***************************************************************************)
Pipelines ==
    {pl \in Apps("checkStatus") \X Apps("parseJSON") :
        promises[pl[1]].src = 1 /\ promises[pl[2]].src = pl[1]}

(***************************************************************************)
(* C6  In the pipeline, when the exchange fulfils with an Exchange Result  *)
(* r whose status is outside [200, 299], whatever its body: the pipeline   *)
(* is never fulfilled, it is rejected once the queue is drained with the   *)
(* ErrorWithResponse checkStatus produced (wrapping r), and parseJSON      *)
(* never calls json().                                                     *)
(***************************************************************************)
C6_PipelineStatusFailure ==
    \A pl \in Pipelines :
        (GotResponse(1) /\ ~Is2xx(promises[1].value.status)) =>
            /\ promises[pl[2]].state # "fulfilled"
            /\ promises[pl[2]].state = "rejected" =>
                  /\ promises[pl[1]].state = "rejected"
                  /\ promises[pl[2]].value = promises[pl[1]].value
                  /\ promises[pl[2]].value.kind = "ErrorWithResponse"
                  /\ promises[pl[2]].value.response = promises[1].value
            /\ promises[pl[2]].jsonCalls = 0
            /\ JsonOf(pl[2]) = {}
            /\ Quiescent => promises[pl[2]].state = "rejected"

C6_Witness ==
    \E pl \in Pipelines :
        /\ GotResponse(1)
        /\ promises[1].value.status = 404
        /\ promises[1].value.body = GoodBody
        /\ promises[pl[2]].state = "rejected"
        /\ promises[pl[2]].value.kind = "ErrorWithResponse"

(***************************************************************************)
(* C7  In the pipeline, when the exchange fulfils with an Exchange Result  *)
(* whose status is in [200, 299]: parseJSON calls json() once the queue is *)
(* drained, and when the promise json() returned is fulfilled with V (the  *)
(* parse of the body) the pipeline is never rejected and is fulfilled,     *)
(* once the queue is drained, with V.                                      *)
(***************************************************************************)
C7_PipelineSuccess ==
    \A pl \in Pipelines :
        (GotResponse(1) /\ Is2xx(promises[1].value.status)) =>
            /\ jobs = <<>> => Cardinality(JsonOf(pl[2])) = 1
            /\ promises[pl[2]].state = "fulfilled" =>
                  \E q \in JsonOf(pl[2]) : promises[q].state = "fulfilled"
            /\ \A q \in JsonOf(pl[2]) :
                  promises[q].state = "fulfilled" =>
                     /\ promises[q].value =
                           JSONParse(promises[1].value.body,
                                     promises[q].value.id).value
                     /\ promises[pl[2]].state # "rejected"
                     /\ promises[pl[2]].state = "fulfilled" =>
                           promises[pl[2]].value = promises[q].value
                     /\ jobs = <<>> => promises[pl[2]].state = "fulfilled"

C7_Witness ==
    \E pl \in Pipelines :
        /\ GotResponse(1)
        /\ promises[1].value.status = 200
        /\ promises[1].value.body = GoodBody
        /\ promises[pl[2]].state = "fulfilled"
        /\ promises[pl[2]].value.kind = "Object"
        /\ promises[pl[2]].value.fields = [id |-> 42]

(***************************************************************************)
(* C8  Chain liveness.  Every application of checkStatus or parseJSON, on  *)
(* the exchange or on another application's output, is chained to its      *)
(* input (registered as a reaction of a pending input, or scheduled on a   *)
(* settled one) until its callback runs, which happens at most once; its   *)
(* output eventually settles, given that the exchange and the json()       *)
(* promises settle; and a settled promise never changes state or value.    *)
(***************************************************************************)
Registered(d) ==
    Cardinality({k \in 1..Len(Input(d).reactions) :
                    Input(d).reactions[k] =
                        [type |-> "reaction", target |-> d]})

Scheduled(d) ==
    Cardinality({k \in 1..Len(jobs) :
                    jobs[k] = Job("reaction", d, promises[d].src)})

Chained ==
    \A d \in AllApps :
        /\ promises[d].ran <= 1
        /\ promises[d].ran = 0 =>
              /\ promises[d].state = "pending"
              /\ IF Input(d).state = "pending"
                 THEN Registered(d) = 1 /\ Scheduled(d) = 0
                 ELSE Registered(d) = 0 /\ Scheduled(d) = 1

SettledForGood ==
    \A i \in Ids :
        Settled(i) =>
            /\ promises'[i].state = promises[i].state
            /\ promises'[i].value = promises[i].value

C8_ChainLiveness ==
    /\ []Chained
    /\ [][SettledForGood]_vars
    /\ \A i \in 1..MaxPromises :
          (i \in AllApps) ~> (i \in AllApps /\ Settled(i))

C8_Witness ==
    /\ Calls(promises) = MaxCalls
    /\ \A d \in AllApps : Settled(d)
    /\ \E pl \in Pipelines : promises[pl[2]].state = "fulfilled"

(***************************************************************************)
(* C9 as stated: over any applications of checkStatus and parseJSON to the *)
(* promises of one exchange, at most one ErrorWithResponse wraps a given   *)
(* Exchange Result, none wraps one whose status is in [200, 299], and      *)
(* parseJSON creates none.                                                 *)
(***************************************************************************)
Wrapping(r) == {k \in 1..Len(created) : created[k].response = r}

C9_AtMostOnePerExchange ==
    /\ \A k \in 1..Len(created) :
          /\ Cardinality(Wrapping(created[k].response)) <= 1
          /\ ~(/\ created[k].response.kind = "Response"
               /\ Is2xx(created[k].response.status))
    /\ \A j \in Apps("parseJSON") : promises[j].errs = 0

(***************************************************************************)
(* C9 amended: an ErrorWithResponse is constructed only by checkStatus,    *)
(* exactly one by each run of its callback on a value whose status is not  *)
(* in [200, 299] and none otherwise (none on a rejected input, such as its *)
(* own failing output), so the errors wrapping an Exchange Result are as   *)
(* many as the checkStatus applications that observed it; each is a        *)
(* distinct object; none wraps an Exchange Result whose status is in       *)
(* [200, 299]; parseJSON creates none.                                     *)
(***************************************************************************)
Observed(c) ==
    /\ promises[c].ran = 1
    /\ Input(c).state = "fulfilled"
    /\ ~(/\ "status" \in DOMAIN Input(c).value
         /\ Is2xx(Input(c).value.status))

C9_OnePerObservation ==
    /\ \A j \in Apps("parseJSON") : promises[j].errs = 0
    /\ \A c \in Apps("checkStatus") :
          promises[c].errs = IF Observed(c) THEN 1 ELSE 0
    /\ \A k \in 1..Len(created) :
          /\ created[k].kind = "ErrorWithResponse"
          /\ ~(/\ created[k].response.kind = "Response"
               /\ Is2xx(created[k].response.status))
          /\ \A m \in 1..Len(created) :
                created[m].id = created[k].id => m = k
          /\ Cardinality(Wrapping(created[k].response)) =
                Cardinality({c \in Apps("checkStatus") :
                    Observed(c) /\ Input(c).value = created[k].response})
    /\ Len(created) = Cardinality({c \in Apps("checkStatus") : Observed(c)})

C9_Witness ==
    /\ Len(created) = 2
    /\ created[1].response = created[2].response
    /\ created[1].response.kind = "Response"
    /\ created[1].id # created[2].id
    /\ \A c \in Apps("checkStatus") :
          /\ promises[c].src = 1
          /\ promises[c].state = "rejected"
          /\ promises[c].errs = 1

(***************************************************************************)
(* C10  parseJSON applied directly to the exchange promise, the exchange   *)
(* fulfilling with an Exchange Result whose status is outside [200, 299]   *)
(* and whose json() promise is rejected with a parse error p: the output   *)
(* is never fulfilled and is rejected, once the queue is drained, with p   *)
(* (the SyntaxError), not with an ErrorWithResponse; parseJSON reads no    *)
(* status and constructs nothing.                                          *)
(***************************************************************************)
C10_OrderingSensitivity ==
    /\ \A j \in Apps("parseJSON") : promises[j].statusReads = 0
    /\ \A j \in Apps("parseJSON") :
        (/\ promises[j].src = 1
         /\ GotResponse(1)
         /\ ~Is2xx(promises[1].value.status)) =>
            /\ jobs = <<>> => Cardinality(JsonOf(j)) = 1
            /\ promises[j].errs = 0
            /\ \A q \in JsonOf(j) :
                  (/\ promises[q].state = "rejected"
                   /\ promises[q].value.kind = "SyntaxError") =>
                     /\ promises[j].state # "fulfilled"
                     /\ promises[j].state = "rejected" =>
                           promises[j].value = promises[q].value
                     /\ jobs = <<>> => promises[j].state = "rejected"

C10_Witness ==
    \E j \in Apps("parseJSON") :
        /\ promises[j].src = 1
        /\ GotResponse(1)
        /\ promises[1].value.status = 404
        /\ promises[1].value.body = BadBody
        /\ promises[j].state = "rejected"
        /\ promises[j].value.kind = "SyntaxError"
        /\ created = <<>>

=============================================================================
